---------------------------- MODULE Spec2Model ----------------------------
(***************************************************************************)
(* A model of the zlang front end and its driver (src/main.cpp): the       *)
(* lexer gettoken, the recursive-descent parser, the code generator's      *)
(* success/failure behaviour and the top-level dispatcher MainLoop.        *)
(*                                                                         *)
(* Characters are their ASCII codes, as in the source, where gettoken      *)
(* returns either a negative tok_ value or the code of the character.      *)
(* A string is a sequence of codes.  nullptr is the record Null.           *)
(***************************************************************************)
EXTENDS Integers, Sequences, FiniteSets, TLC

VARIABLES
  stdin,            \* the characters getchar has not read yet
  LastChar, IdentifierStr, NumVal,           \* the lexer's globals
  CurTok, BinopPrecedence,                   \* the parser's globals
  errs,             \* stderr: the "Error: ..." lines, in order
  FunctionProtos, TheModule, NameValues,     \* the code generator's globals
  JIT,              \* TheJIT: the symbols defined in its main dylib
  pc,               \* "start", "loop" (in MainLoop), "evaluating" (in the
                    \* compiled code of a top-level expression), "done"
                    \* (MainLoop returned), "exited" (ExitOnErr)
  toks,             \* history: the values gettoken returned, in order
  units,            \* history: one record per top-level unit handled
  backend,          \* history: the calls made on the backend, in order
  input             \* history: the whole input, as stdin held it at the start

vars == << stdin, LastChar, IdentifierStr, NumVal, CurTok, BinopPrecedence,
           errs, FunctionProtos, TheModule, NameValues, JIT, pc, toks, units,
           backend, input >>

\* F applied to the value of v, which is computed once.
Let(v, F(_)) == CHOOSE y \in {F(x) : x \in {v}} : TRUE

(***************************************************************************)
(* ASCII                                                                   *)
(***************************************************************************)
Printable ==
  << " ", "!", "dquote", "#", "$", "%", "&", "'", "(", ")", "*", "+", ",", "-",
     ".", "/", "0", "1", "2", "3", "4", "5", "6", "7", "8", "9", ":", ";",
     "<", "=", ">", "?", "@", "A", "B", "C", "D", "E", "F", "G", "H", "I",
     "J", "K", "L", "M", "N", "O", "P", "Q", "R", "S", "T", "U", "V", "W",
     "X", "Y", "Z", "[", "backslash", "]", "^", "_", "backtick", "a", "b", "c", "d", "e",
     "f", "g", "h", "i", "j", "k", "l", "m", "n", "o", "p", "q", "r", "s",
     "t", "u", "v", "w", "x", "y", "z", "{", "|", "}", "~" >>

\* The code of a printable character: space is 32, tilde is 126.
Ord(c) == 31 + (CHOOSE i \in 1..Len(Printable) : Printable[i] = c)

\* A string literal as the sequence of its character codes.
Str(cs) == [i \in 1..Len(cs) |-> Ord(cs[i])]

EOF == -1
NL == 10
CR == 13
SP == Ord(" ")
ch_dot == Ord(".")
ch_hash == Ord("#")
ch_lparen == Ord("(")
ch_rparen == Ord(")")
ch_comma == Ord(",")
ch_semi == Ord(";")
ch_eq == Ord("=")
ch_lt == Ord("<")
ch_gt == Ord(">")
ch_plus == Ord("+")
ch_minus == Ord("-")
ch_star == Ord("*")
ch_slash == Ord("/")

isspace(c) == c \in {9, 10, 11, 12, 13, 32}
isdigit(c) == c \in 48..57
isalpha(c) == c \in (65..90) \cup (97..122)
isalnum(c) == isalpha(c) \/ isdigit(c)
isascii(c) == c \in 0..127

(***************************************************************************)
(* enum Token                                                              *)
(***************************************************************************)
tok_eof == -1
tok_def == -2
tok_extern == -3
tok_identifier == -4
tok_number == -5
tok_if == -6
tok_then == -7
tok_else == -8
tok_for == -9
tok_in == -10

(***************************************************************************)
(* The value of a numeric literal: M / 10^E, with no trailing zero in the  *)
(* fraction, so that 1.0 and 1 are the same value.                         *)
(***************************************************************************)
RECURSIVE Normal(_)
Normal(v) ==
  IF v.E > 0 /\ v.M % 10 = 0 THEN Normal([M |-> v.M \div 10, E |-> v.E - 1])
  ELSE v

Num(n) == [M |-> n, E |-> 0]

\* strtod on a string of digits and dots: the longest prefix digits* [. digits*]
\* is converted; the scan stops at a second '.'.  No digit at all converts to 0.
RECURSIVE strtodFrom(_, _, _, _)
strtodFrom(NumStr, i, v, dot) ==
  IF i > Len(NumStr) THEN Normal(v)
  ELSE IF isdigit(NumStr[i])
    THEN strtodFrom(NumStr, i + 1,
                    [M |-> v.M * 10 + (NumStr[i] - 48),
                     E |-> IF dot THEN v.E + 1 ELSE v.E], dot)
  ELSE IF NumStr[i] = ch_dot /\ ~dot THEN strtodFrom(NumStr, i + 1, v, TRUE)
  ELSE Normal(v)

strtod(NumStr) == strtodFrom(NumStr, 1, Num(0), FALSE)

(***************************************************************************)
(* The lexer.  A lexer/parser state s is the record of the globals         *)
(*   stdin           the characters not yet read (an element EOF is an     *)
(*                   end-of-file the terminal reports before more input)   *)
(*   LastChar        gettoken's static LastChar                            *)
(*   IdentifierStr, NumVal, CurTok, BinopPrecedence                        *)
(*   errs            the diagnostics written by LogError, in order         *)
(*   toks            the values returned by gettoken so far, in order      *)
(***************************************************************************)
getchar(s) ==
  IF s.stdin = << >> THEN [s EXCEPT !.LastChar = EOF]
  ELSE [s EXCEPT !.LastChar = Head(s.stdin), !.stdin = Tail(s.stdin)]

\* while (isspace(LastChar)) LastChar = getchar();
RECURSIVE SkipSpace(_)
SkipSpace(s) ==
  IF isspace(s.LastChar) THEN Let(getchar(s), LAMBDA s1 : SkipSpace(s1)) ELSE s

\* while (isalnum(LastChar = getchar())) IdentifierStr += LastChar;
RECURSIVE ReadIdentifier(_)
ReadIdentifier(s) ==
  Let(getchar(s), LAMBDA s1 :
    IF isalnum(s1.LastChar)
    THEN ReadIdentifier([s1 EXCEPT !.IdentifierStr = Append(@, s1.LastChar)])
    ELSE s1)

\* do { NumStr += LastChar; LastChar = getchar(); } while (isdigit(LastChar) || LastChar == '.');
\* NumVal = strtod(NumStr.c_str(), 0);
RECURSIVE ReadNumber(_, _)
ReadNumber(s, NumStr) ==
  Let(getchar(s), LAMBDA s1 :
    IF isdigit(s1.LastChar) \/ s1.LastChar = ch_dot
    THEN ReadNumber(s1, Append(NumStr, s.LastChar))
    ELSE [s1 EXCEPT !.NumVal = strtod(Append(NumStr, s.LastChar))])

\* do LastChar = getchar(); while (LastChar != EOF && LastChar != '\n' && LastChar != '\r');
RECURSIVE SkipComment(_)

\* A faulty comment, which a carriage return does not end.
SkipCommentPastCR(s) ==
  Let(getchar(s), LAMBDA s1 :
    IF s1.LastChar # EOF /\ s1.LastChar # NL
    THEN SkipComment(s1)
    ELSE s1)

SkipComment(s) ==
  Let(getchar(s), LAMBDA s1 :
    IF s1.LastChar # EOF /\ s1.LastChar # NL /\ s1.LastChar # CR
    THEN SkipComment(s1)
    ELSE s1)

kw_def == Str(<<"d", "e", "f">>)
kw_extern == Str(<<"e", "x", "t", "e", "r", "n">>)
kw_if == Str(<<"i", "f">>)
kw_then == Str(<<"t", "h", "e", "n">>)
kw_else == Str(<<"e", "l", "s", "e">>)
kw_for == Str(<<"f", "o", "r">>)
kw_in == Str(<<"i", "n">>)

Keyword(id) ==
  IF id = kw_def THEN tok_def
  ELSE IF id = kw_extern THEN tok_extern
  ELSE IF id = kw_if THEN tok_if
  ELSE IF id = kw_then THEN tok_then
  ELSE IF id = kw_else THEN tok_else
  ELSE IF id = kw_for THEN tok_for
  ELSE IF id = kw_in THEN tok_in
  ELSE tok_identifier

\* What gettoken returns: the state it leaves and the token.
Tok(s, tok) == [s |-> s, tok |-> tok]

\* A faulty end of input, which forgets it once reported: the next call of
\* gettoken reads stdin again.
TokenAtEofOnce(s) == Tok([s EXCEPT !.LastChar = SP], tok_eof)

\* if (LastChar == EOF) return tok_eof;  LastChar stays EOF: getchar is not
\* called again.
TokenAtEof(s) == Tok(s, tok_eof)

RECURSIVE gettoken(_)
gettoken(s0) ==
  Let(SkipSpace(s0), LAMBDA s :
    IF isalpha(s.LastChar)
    THEN Let(ReadIdentifier([s EXCEPT !.IdentifierStr = <<s.LastChar>>]),
             LAMBDA s1 : Tok(s1, Keyword(s1.IdentifierStr)))
    ELSE IF isdigit(s.LastChar) \/ s.LastChar = ch_dot
    THEN Tok(ReadNumber(s, << >>), tok_number)
    ELSE IF s.LastChar = ch_hash
    THEN Let(SkipComment(s), LAMBDA s1 :
           IF s1.LastChar # EOF THEN gettoken(s1) ELSE TokenAtEof(s1))
    ELSE IF s.LastChar = EOF THEN TokenAtEof(s)
    ELSE Tok(getchar(s), s.LastChar))

getNextToken(s) ==
  Let(gettoken(s), LAMBDA r :
    [r.s EXCEPT !.CurTok = r.tok, !.toks = Append(@, r.tok)])

(***************************************************************************)
(* The AST                                                                 *)
(***************************************************************************)
Null == [kind |-> "null"]
NumberExprAST(Val) == [kind |-> "Number", Val |-> Val]
VariableExprAST(Name) == [kind |-> "Variable", Name |-> Name]
BinaryExprAST(Op, LHS, RHS) == [kind |-> "Binary", Op |-> Op, LHS |-> LHS, RHS |-> RHS]
CallExprAST(Callee, Args) == [kind |-> "Call", Callee |-> Callee, Args |-> Args]
IfExprAST(Cond, Then, Else) == [kind |-> "If", Cond |-> Cond, Then |-> Then, Else |-> Else]
ForExprAST(VarName, Start, End, Step, Body) ==
  [kind |-> "For", VarName |-> VarName, Start |-> Start, End |-> End,
   Step |-> Step, Body |-> Body]
PrototypeAST(Name, Args) == [kind |-> "Prototype", Name |-> Name, Args |-> Args]
FunctionAST(Proto, Body) == [kind |-> "Function", Proto |-> Proto, Body |-> Body]

\* A production's result: the state it leaves and the node (Null on failure).
Ret(s, node) == [s |-> s, node |-> node]

LogError(s, msg) == Ret([s EXCEPT !.errs = Append(@, msg)], Null)
LogErrorP(s, msg) == LogError(s, msg)


(***************************************************************************)
(* The parser.  Every production takes the state and returns Ret(s, node). *)
(***************************************************************************)
Prec(s, prec) == [s |-> s, prec |-> prec]

\* std::map::operator[] inserts the key with value 0 when it is absent.
MapLookup(bp, key) == IF key \in DOMAIN bp THEN bp ELSE bp @@ (key :> 0)

GetTokPrecedence(s) ==
  IF ~isascii(s.CurTok) THEN Prec(s, -1)
  ELSE Let(MapLookup(s.BinopPrecedence, s.CurTok), LAMBDA bp :
         Prec([s EXCEPT !.BinopPrecedence = bp],
              IF bp[s.CurTok] <= 0 THEN -1 ELSE bp[s.CurTok]))

InstallBinop(s) ==
  [s EXCEPT !.BinopPrecedence =
     (ch_lt :> 10) @@ (ch_gt :> 10) @@ (ch_plus :> 20) @@ (ch_minus :> 20)
       @@ (ch_star :> 40) @@ (ch_slash :> 40) @@ @]

\* A faulty ParseNumberExpr, which reads NumVal after it has advanced.
ParseNumberExprLate(s) ==
  Let(getNextToken(s), LAMBDA s1 : Ret(s1, NumberExprAST(s1.NumVal)))

ParseNumberExpr(s) == Ret(getNextToken(s), NumberExprAST(s.NumVal))

RECURSIVE ParseExpression(_)
RECURSIVE ParsePrimary(_)
RECURSIVE ParseBinOpRHS(_, _, _)
RECURSIVE ParseCallArgs(_, _, _)

\* A faulty ParseParenExpr, which reports the failure of the inner expression
\* once more.
ParseParenExprLogsAgain(s) ==
  Let(ParseExpression(getNextToken(s)), LAMBDA v :
    IF v.node = Null THEN LogError(v.s, "expected expression")
    ELSE IF v.s.CurTok = ch_rparen THEN Ret(getNextToken(v.s), v.node)
    ELSE LogError(v.s, "expected ')'"))

\* A faulty ParseParenExpr, which leaves the ')' as the current token.
ParseParenExprKeepsParen(s) ==
  Let(ParseExpression(getNextToken(s)), LAMBDA v :
    IF v.node = Null THEN Ret(v.s, Null)
    ELSE IF v.s.CurTok = ch_rparen THEN Ret(v.s, v.node)
    ELSE LogError(v.s, "expected ')'"))

ParseParenExpr(s) ==
  Let(ParseExpression(getNextToken(s)), LAMBDA v :
    IF v.node = Null THEN Ret(v.s, Null)
    ELSE IF v.s.CurTok = ch_rparen THEN Ret(getNextToken(v.s), v.node)
    ELSE LogError(v.s, "expected ')'"))

\* A faulty argument loop, which puts each argument in front of the earlier
\* ones.
ParseCallArgsInFront(IdName, Args, s) ==
  Let(ParseExpression(s), LAMBDA a :
    IF a.node = Null THEN Ret(a.s, Null)
    ELSE IF a.s.CurTok = ch_rparen
    THEN Ret(getNextToken(a.s), CallExprAST(IdName, <<a.node>> \o Args))
    ELSE IF a.s.CurTok = ch_comma
    THEN Let(getNextToken(a.s), LAMBDA s1 :
           ParseCallArgs(IdName, <<a.node>> \o Args, s1))
    ELSE LogError(a.s, "Expected ')' or ',' in argument list"))

\* The while (true) loop of ParseIdentifierExpr: one argument per iteration.
ParseCallArgs(IdName, Args, s) ==
  Let(ParseExpression(s), LAMBDA a :
    IF a.node = Null THEN Ret(a.s, Null)
    ELSE IF a.s.CurTok = ch_rparen
    THEN Ret(getNextToken(a.s), CallExprAST(IdName, Append(Args, a.node)))
    ELSE IF a.s.CurTok = ch_comma
    THEN Let(getNextToken(a.s), LAMBDA s1 :
           ParseCallArgs(IdName, Append(Args, a.node), s1))
    ELSE LogError(a.s, "Expected ')' or ',' in argument list"))

ParseIdentifierExpr(s) ==
  Let(getNextToken(s), LAMBDA s1 :
    IF s1.CurTok = ch_lparen
    THEN Let(getNextToken(s1), LAMBDA s2 :
           IF s2.CurTok # ch_rparen
           THEN ParseCallArgs(s.IdentifierStr, << >>, s2)
           ELSE Ret(getNextToken(s2), CallExprAST(s.IdentifierStr, << >>)))
    ELSE Ret(s1, VariableExprAST(s.IdentifierStr)))

ParseIfExpr(s) ==
  Let(ParseExpression(getNextToken(s)), LAMBDA c :
    IF c.node = Null THEN Ret(c.s, Null)
    ELSE IF c.s.CurTok # tok_then THEN LogError(c.s, "expected then")
    ELSE Let(ParseExpression(getNextToken(c.s)), LAMBDA t :
      IF t.node = Null THEN Ret(t.s, Null)
      ELSE IF t.s.CurTok # tok_else THEN LogError(t.s, "expected else")
      ELSE Let(ParseExpression(getNextToken(t.s)), LAMBDA e :
        IF e.node = Null THEN Ret(e.s, Null)
        ELSE Ret(e.s, IfExprAST(c.node, t.node, e.node)))))

\* ParseForExpr from the optional step on: Step is Null when there is none.
ParseForBody(IdName, Start, End, Step, s) ==
  IF s.CurTok # tok_in THEN LogError(s, "expected 'in' after for")
  ELSE Let(ParseExpression(getNextToken(s)), LAMBDA b :
         IF b.node = Null THEN Ret(b.s, Null)
         ELSE Ret(b.s, ForExprAST(IdName, Start, End, Step, b.node)))

\* A faulty ParseForExpr, which fills in the constant 1.0 for a step that is
\* not written.
ParseForRangeDefaultStep(IdName, s) ==
  Let(ParseExpression(s), LAMBDA st :
    IF st.node = Null THEN Ret(st.s, Null)
    ELSE IF st.s.CurTok # ch_comma
    THEN LogError(st.s, "expected ',' after for start value")
    ELSE Let(ParseExpression(getNextToken(st.s)), LAMBDA en :
      IF en.node = Null THEN Ret(en.s, Null)
      ELSE IF en.s.CurTok = ch_comma
      THEN Let(ParseExpression(getNextToken(en.s)), LAMBDA sp :
             IF sp.node = Null THEN Ret(sp.s, Null)
             ELSE ParseForBody(IdName, st.node, en.node, sp.node, sp.s))
      ELSE ParseForBody(IdName, st.node, en.node, NumberExprAST(Num(1)), en.s)))

\* ParseForExpr from the start value on.
ParseForRange(IdName, s) ==
  Let(ParseExpression(s), LAMBDA st :
    IF st.node = Null THEN Ret(st.s, Null)
    ELSE IF st.s.CurTok # ch_comma
    THEN LogError(st.s, "expected ',' after for start value")
    ELSE Let(ParseExpression(getNextToken(st.s)), LAMBDA en :
      IF en.node = Null THEN Ret(en.s, Null)
      ELSE IF en.s.CurTok = ch_comma
      THEN Let(ParseExpression(getNextToken(en.s)), LAMBDA sp :
             IF sp.node = Null THEN Ret(sp.s, Null)
             ELSE ParseForBody(IdName, st.node, en.node, sp.node, sp.s))
      ELSE ParseForBody(IdName, st.node, en.node, Null, en.s)))

ParseForExpr(s) ==
  Let(getNextToken(s), LAMBDA s1 :
    IF s1.CurTok # tok_identifier
    THEN LogError(s1, "expected identifier after for")
    ELSE Let(getNextToken(s1), LAMBDA s2 :
      IF s2.CurTok # ch_eq THEN LogError(s2, "expected '=' after for")
      ELSE Let(getNextToken(s2), LAMBDA s3 :
             ParseForRange(s1.IdentifierStr, s3))))

ParsePrimary(s) ==
  IF s.CurTok = tok_identifier THEN ParseIdentifierExpr(s)
  ELSE IF s.CurTok = tok_number THEN ParseNumberExpr(s)
  ELSE IF s.CurTok = ch_lparen THEN ParseParenExpr(s)
  ELSE IF s.CurTok = tok_if THEN ParseIfExpr(s)
  ELSE IF s.CurTok = tok_for THEN ParseForExpr(s)
  ELSE LogError(s, "unknown token when expecting an expression")

ParseExpression(s) ==
  Let(ParsePrimary(s), LAMBDA l :
    IF l.node = Null THEN Ret(l.s, Null)
    ELSE ParseBinOpRHS(0, l.node, l.s))

\* A faulty ParseBinOpRHS, which lets an operator of the same precedence take
\* the right operand first.
ParseBinOpRHSRightFirst(ExprPrec, LHS, s) ==
  Let(GetTokPrecedence(s), LAMBDA p :
    IF p.prec < ExprPrec THEN Ret(p.s, LHS)
    ELSE Let(getNextToken(p.s), LAMBDA s1 :
      Let(ParsePrimary(s1), LAMBDA r :
        IF r.node = Null THEN Ret(r.s, Null)
        ELSE Let(GetTokPrecedence(r.s), LAMBDA q :
          IF p.prec <= q.prec
          THEN Let(ParseBinOpRHS(p.prec, r.node, q.s), LAMBDA r2 :
                 IF r2.node = Null THEN Ret(r2.s, Null)
                 ELSE ParseBinOpRHS(ExprPrec,
                        BinaryExprAST(p.s.CurTok, LHS, r2.node), r2.s))
          ELSE ParseBinOpRHS(ExprPrec,
                 BinaryExprAST(p.s.CurTok, LHS, r.node), q.s)))))

\* A faulty ParseBinOpRHS, which reads past the token that ends the chain.
ParseBinOpRHSEatsTerminator(ExprPrec, LHS, s) ==
  Let(GetTokPrecedence(s), LAMBDA p :
    IF p.prec < ExprPrec THEN Ret(getNextToken(p.s), LHS)
    ELSE Let(getNextToken(p.s), LAMBDA s1 :
      Let(ParsePrimary(s1), LAMBDA r :
        IF r.node = Null THEN Ret(r.s, Null)
        ELSE Let(GetTokPrecedence(r.s), LAMBDA q :
          IF p.prec < q.prec
          THEN Let(ParseBinOpRHS(p.prec + 1, r.node, q.s), LAMBDA r2 :
                 IF r2.node = Null THEN Ret(r2.s, Null)
                 ELSE ParseBinOpRHS(ExprPrec,
                        BinaryExprAST(p.s.CurTok, LHS, r2.node), r2.s))
          ELSE ParseBinOpRHS(ExprPrec,
                 BinaryExprAST(p.s.CurTok, LHS, r.node), q.s)))))

\* A faulty ParseBinOpRHS, which never looks at the operator after the right
\* operand.
ParseBinOpRHSFlat(ExprPrec, LHS, s) ==
  Let(GetTokPrecedence(s), LAMBDA p :
    IF p.prec < ExprPrec THEN Ret(p.s, LHS)
    ELSE Let(getNextToken(p.s), LAMBDA s1 :
      Let(ParsePrimary(s1), LAMBDA r :
        IF r.node = Null THEN Ret(r.s, Null)
        ELSE ParseBinOpRHS(ExprPrec,
               BinaryExprAST(p.s.CurTok, LHS, r.node), r.s))))

\* One iteration of the while (true) loop; the loop continues by recursion.
\* p.prec is TokPrec, p.s.CurTok is BinOp, q.prec is NextPrec.
ParseBinOpRHS(ExprPrec, LHS, s) ==
  Let(GetTokPrecedence(s), LAMBDA p :
    IF p.prec < ExprPrec THEN Ret(p.s, LHS)
    ELSE Let(getNextToken(p.s), LAMBDA s1 :
      Let(ParsePrimary(s1), LAMBDA r :
        IF r.node = Null THEN Ret(r.s, Null)
        ELSE Let(GetTokPrecedence(r.s), LAMBDA q :
          IF p.prec < q.prec
          THEN Let(ParseBinOpRHS(p.prec + 1, r.node, q.s), LAMBDA r2 :
                 IF r2.node = Null THEN Ret(r2.s, Null)
                 ELSE ParseBinOpRHS(ExprPrec,
                        BinaryExprAST(p.s.CurTok, LHS, r2.node), r2.s))
          ELSE ParseBinOpRHS(ExprPrec,
                 BinaryExprAST(p.s.CurTok, LHS, r.node), q.s)))))

\* while (getNextToken() == tok_identifier) ArgNames.push_back(IdentifierStr);
ProtoArgs(s, ArgNames) == [s |-> s, ArgNames |-> ArgNames]

RECURSIVE ParsePrototypeArgs(_, _)

\* A faulty parameter loop, which lets commas stand between the names.
ParsePrototypeArgsCommas(s, ArgNames) ==
  Let(getNextToken(s), LAMBDA s1 :
    IF s1.CurTok = tok_identifier
    THEN ParsePrototypeArgs(s1, Append(ArgNames, s1.IdentifierStr))
    ELSE IF s1.CurTok = ch_comma THEN ParsePrototypeArgs(s1, ArgNames)
    ELSE ProtoArgs(s1, ArgNames))

ParsePrototypeArgs(s, ArgNames) ==
  Let(getNextToken(s), LAMBDA s1 :
    IF s1.CurTok = tok_identifier
    THEN ParsePrototypeArgs(s1, Append(ArgNames, s1.IdentifierStr))
    ELSE ProtoArgs(s1, ArgNames))

\* A faulty ParsePrototype, which reports a missing ')' and goes on to return
\* the prototype all the same.
ParsePrototypeNoReturn(s) ==
  IF s.CurTok # tok_identifier
  THEN LogErrorP(s, "Expected function name in prototype")
  ELSE Let(getNextToken(s), LAMBDA s1 :
    IF s1.CurTok # ch_lparen
    THEN LogErrorP(s1, "Expected '(' in prototype")
    ELSE Let(ParsePrototypeArgs(s1, << >>), LAMBDA a :
      IF a.s.CurTok # ch_rparen
      THEN Ret(LogErrorP(a.s, "Expected ')' in prototype").s,
               PrototypeAST(s.IdentifierStr, a.ArgNames))
      ELSE Ret(getNextToken(a.s), PrototypeAST(s.IdentifierStr, a.ArgNames))))

ParsePrototype(s) ==
  IF s.CurTok # tok_identifier
  THEN LogErrorP(s, "Expected function name in prototype")
  ELSE Let(getNextToken(s), LAMBDA s1 :
    IF s1.CurTok # ch_lparen
    THEN LogErrorP(s1, "Expected '(' in prototype")
    ELSE Let(ParsePrototypeArgs(s1, << >>), LAMBDA a :
      IF a.s.CurTok # ch_rparen
      THEN LogErrorP(a.s, "Expected ')' in prototype")
      ELSE Ret(getNextToken(a.s), PrototypeAST(s.IdentifierStr, a.ArgNames))))

\* ParseDefinition once the prototype is parsed.
ParseDefinitionBody(Proto, s) ==
  Let(ParseExpression(s), LAMBDA e :
    IF e.node # Null THEN Ret(e.s, FunctionAST(Proto, e.node))
    ELSE Ret(e.s, Null))

ParseDefinition(s) ==
  Let(getNextToken(s), LAMBDA s1 :
    Let(ParsePrototype(s1), LAMBDA p :
      IF p.node = Null THEN Ret(p.s, Null)
      ELSE ParseDefinitionBody(p.node, p.s)))

ParseExtern(s) == Let(getNextToken(s), LAMBDA s1 : ParsePrototype(s1))

anon_expr == Str(<<"_", "_", "a", "n", "o", "n", "_", "e", "x", "p", "r">>)

\* A faulty ParseTopLevelExpr, which makes a fresh name for each expression.
ParseTopLevelExprNumbered(s) ==
  Let(ParseExpression(s), LAMBDA e :
    IF e.node # Null
    THEN Ret(e.s, FunctionAST(
           PrototypeAST(Append(anon_expr, Ord("0") + (Len(e.s.toks) % 10)), << >>),
           e.node))
    ELSE Ret(e.s, Null))

ParseTopLevelExpr(s) ==
  Let(ParseExpression(s), LAMBDA e :
    IF e.node # Null
    THEN Ret(e.s, FunctionAST(PrototypeAST(anon_expr, << >>), e.node))
    ELSE Ret(e.s, Null))

(***************************************************************************)
(* Code generation.  A backend state b is the record of the globals        *)
(*   FunctionProtos  name -> parameter names of the latest prototype       *)
(*   TheModule       name -> parameter names of the function of that name  *)
(*                   in the module being built                             *)
(*   NameValues      the names bound to a non-null Value                   *)
(*   errs            the diagnostics (LogErrorV writes through LogError)   *)
(* codegen returns the state and ok, FALSE standing for a null result.     *)
(***************************************************************************)
EmptyMap == [k \in {} |-> << >>]
Put(m, k, v) == (k :> v) @@ m
Erase(m, k) == [x \in DOMAIN m \ {k} |-> m[x]]
Range(f) == {f[i] : i \in DOMAIN f}

Gen(b, ok) == [b |-> b, ok |-> ok]
LogErrorV(b, msg) == Gen([b EXCEPT !.errs = Append(@, msg)], FALSE)

\* Function::Create under a name the module already holds makes a renamed
\* function; the module's function of that name stays the first one.
PrototypeCodegen(b, Name, Args) ==
  IF Name \in DOMAIN b.TheModule THEN b
  ELSE [b EXCEPT !.TheModule = Put(@, Name, Args)]

getFunction(b, Name) ==
  IF Name \in DOMAIN b.TheModule
  THEN [b |-> b, found |-> TRUE, Args |-> b.TheModule[Name]]
  ELSE IF Name \in DOMAIN b.FunctionProtos
  THEN [b |-> PrototypeCodegen(b, Name, b.FunctionProtos[Name]),
        found |-> TRUE, Args |-> b.FunctionProtos[Name]]
  ELSE [b |-> b, found |-> FALSE, Args |-> << >>]

CodegenOps == {ch_plus, ch_minus, ch_star, ch_lt}

RECURSIVE ExprCodegen(_, _)
RECURSIVE ArgsCodegen(_, _, _)

\* for (i = 0; i != e; i++) of CallExprAST::codegen: stops at the first failure.
ArgsCodegen(Args, i, b) ==
  IF i > Len(Args) THEN Gen(b, TRUE)
  ELSE Let(ExprCodegen(Args[i], b), LAMBDA a :
         IF ~a.ok THEN a ELSE ArgsCodegen(Args, i + 1, a.b))

\* ForExprAST::codegen once the start value is emitted; OldVal tells whether
\* the loop variable shadows a name.
ForLoopCodegen(node, OldVal, b) ==
  Let(ExprCodegen(node.Body, [b EXCEPT !.NameValues = @ \cup {node.VarName}]),
      LAMBDA bd :
    IF ~bd.ok THEN bd
    ELSE Let(IF node.Step # Null THEN ExprCodegen(node.Step, bd.b)
             ELSE Gen(bd.b, TRUE), LAMBDA sp :
      IF ~sp.ok THEN sp
      ELSE Let(ExprCodegen(node.End, sp.b), LAMBDA en :
        IF ~en.ok THEN en
        ELSE Gen([en.b EXCEPT !.NameValues =
                    IF OldVal THEN @ \cup {node.VarName}
                    ELSE @ \ {node.VarName}], TRUE))))

ForCodegen(node, b) ==
  Let(ExprCodegen(node.Start, b), LAMBDA st :
    IF ~st.ok THEN st
    ELSE ForLoopCodegen(node, node.VarName \in st.b.NameValues, st.b))

\* BinaryExprAST::codegen: both operands are emitted before either is tested.
BinaryCodegen(node, b) ==
  Let(ExprCodegen(node.LHS, b), LAMBDA L :
    Let(ExprCodegen(node.RHS, L.b), LAMBDA R :
      IF ~L.ok \/ ~R.ok THEN Gen(R.b, FALSE)
      ELSE IF node.Op \in CodegenOps THEN Gen(R.b, TRUE)
      ELSE LogErrorV(R.b, "invalid binary operator")))

CallCodegen(node, b) ==
  Let(getFunction(b, node.Callee), LAMBDA f :
    IF ~f.found THEN LogErrorV(f.b, "Unknown function referenced")
    ELSE IF Len(f.Args) # Len(node.Args)
    THEN LogErrorV(f.b, "Incorrect # arguments passed")
    ELSE ArgsCodegen(node.Args, 1, f.b))

IfCodegen(node, b) ==
  Let(ExprCodegen(node.Cond, b), LAMBDA c :
    IF ~c.ok THEN c
    ELSE Let(ExprCodegen(node.Then, c.b), LAMBDA th :
           IF ~th.ok THEN th ELSE ExprCodegen(node.Else, th.b)))

ExprCodegen(node, b) ==
  IF node.kind = "Number" THEN Gen(b, TRUE)
  ELSE IF node.kind = "Variable"
  THEN IF node.Name \in b.NameValues THEN Gen(b, TRUE)
       ELSE LogErrorV(b, "Unknown variable name")
  ELSE IF node.kind = "Binary" THEN BinaryCodegen(node, b)
  ELSE IF node.kind = "Call" THEN CallCodegen(node, b)
  ELSE IF node.kind = "If" THEN IfCodegen(node, b)
  ELSE ForCodegen(node, b)

\* FunctionAST::codegen.  On a failed body the function is erased from the module.
FunctionCodegen(fn, b0) ==
  Let(getFunction([b0 EXCEPT !.FunctionProtos = Put(@, fn.Proto.Name, fn.Proto.Args)],
                  fn.Proto.Name), LAMBDA f :
    Let(ExprCodegen(fn.Body, [f.b EXCEPT !.NameValues = Range(f.Args)]), LAMBDA r :
      IF r.ok THEN r
      ELSE Gen([r.b EXCEPT !.TheModule = Erase(@, fn.Proto.Name)], FALSE)))

\* The functions a body calls: the symbols its compiled code refers to.
RECURSIVE Callees(_)
RECURSIVE CalleesOfAll(_, _)
CalleesOfAll(Args, i) ==
  IF i > Len(Args) THEN {} ELSE Callees(Args[i]) \cup CalleesOfAll(Args, i + 1)

Callees(node) ==
  IF node.kind = "Binary" THEN Callees(node.LHS) \cup Callees(node.RHS)
  ELSE IF node.kind = "Call" THEN {node.Callee} \cup CalleesOfAll(node.Args, 1)
  ELSE IF node.kind = "If"
  THEN Callees(node.Cond) \cup Callees(node.Then) \cup Callees(node.Else)
  ELSE IF node.kind = "For"
  THEN Callees(node.Start) \cup Callees(node.End) \cup Callees(node.Body)
       \cup (IF node.Step # Null THEN Callees(node.Step) ELSE {})
  ELSE {}

(***************************************************************************)
(* The JIT: name -> the symbols the definition of that name refers to.     *)
(* addModule fails on a symbol already defined; lookup fails when a symbol *)
(* the looked-up code needs, directly or not, is defined nowhere.          *)
(* ExitOnErr ends the process on either.                                   *)
(***************************************************************************)
putchard == Str(<<"p", "u", "t", "c", "h", "a", "r", "d">>)
printd == Str(<<"p", "r", "i", "n", "t", "d">>)
ProcessSymbols == {putchard, printd}

addModuleFails(jit, Name) == Name \in DOMAIN jit

Refs(jit, n) == IF n \in DOMAIN jit THEN jit[n] ELSE {}

\* The symbols the code of the symbols in todo needs, directly or not.
RECURSIVE Needed(_, _, _)
Needed(jit, todo, seen) ==
  IF todo = {} THEN seen
  ELSE Let(CHOOSE x \in todo : TRUE, LAMBDA n :
         Needed(jit, (todo \cup Refs(jit, n)) \ (seen \cup {n}), seen \cup {n}))

lookupFails(jit, Name) ==
  \E n \in Needed(jit, {Name}, {}) : n \notin DOMAIN jit /\ n \notin ProcessSymbols


(***************************************************************************)
(* The driver.  A world w is the record of all the variables, the lexer's  *)
(* and parser's under w.s; a handler maps the world at its call to the     *)
(* world at its return (or at the exit ExitOnErr makes).                   *)
(***************************************************************************)
BackendOf(w, s) ==
  [FunctionProtos |-> w.FunctionProtos, TheModule |-> w.TheModule,
   NameValues |-> w.NameValues, errs |-> s.errs]

\* The world after a production left s and the code generator left b.
After(w, s, b) ==
  [w EXCEPT !.s = [s EXCEPT !.errs = b.errs],
            !.FunctionProtos = b.FunctionProtos,
            !.TheModule = b.TheModule,
            !.NameValues = b.NameValues]

Event(op, arg) == [op |-> op, arg |-> arg]

\* The history record of one unit: the handler, the number of tokens read
\* when it was called, when its production returned and when it returned,
\* the production's result, the diagnostics the production wrote, and the
\* node handed to codegen (Null when none was).
Unit(handler, w, r, s1, sent) ==
  [handler |-> handler, startTok |-> Len(w.s.toks), prodTok |-> Len(r.s.toks),
   endTok |-> Len(s1.toks), node |-> r.node,
   nerr |-> Len(r.s.errs) - Len(w.s.errs), sent |-> sent]

InitializeModuleAndPassManager(w) == [w EXCEPT !.TheModule = EmptyMap]

\* A faulty recovery, which skips two tokens where the handlers skip one.
SkipTwoTokens(handler, w, r) ==
  Let(getNextToken(getNextToken(r.s)), LAMBDA s1 :
    [w EXCEPT !.s = s1, !.units = Append(@, Unit(handler, w, r, s1, Null))])

\* The failure branch of a handler: else getNextToken();
SkipToken(handler, w, r) ==
  Let(getNextToken(r.s), LAMBDA s1 :
    [w EXCEPT !.s = s1, !.units = Append(@, Unit(handler, w, r, s1, Null))])

\* A faulty hand-over, which puts the call of codegen before the calls made
\* for the earlier units.
CompiledAhead(handler, w, r, g) ==
  [After(w, r.s, g.b) EXCEPT
     !.units = Append(@, Unit(handler, w, r, r.s, r.node)),
     !.backend = << Event("codegen", r.node), Event("codegenReturn", g.ok) >> \o @]

\* The world when a handler has called codegen on the node its production
\* returned, codegen leaving g: the call and what it returned (non-null or
\* null) are recorded.
Compiled(handler, w, r, g) ==
  [After(w, r.s, g.b) EXCEPT
     !.units = Append(@, Unit(handler, w, r, r.s, r.node)),
     !.backend = @ \o << Event("codegen", r.node), Event("codegenReturn", g.ok) >>]

\* ExitOnErr(TheJIT->addModule(...)) of HandleDefinition, then
\* InitializeModuleAndPassManager.
DefinitionAddModule(w1, Name, Body) ==
  IF addModuleFails(w1.JIT, Name)
  THEN [w1 EXCEPT !.pc = "exited",
                  !.backend = Append(@, Event("addModule", Name))]
  ELSE InitializeModuleAndPassManager(
         [w1 EXCEPT !.JIT = Put(@, Name, Callees(Body)),
                    !.backend = Append(@, Event("addModule", Name))])

HandleDefinition(w) ==
  Let(ParseDefinition(w.s), LAMBDA r :
    IF r.node = Null THEN SkipToken("definition", w, r)
    ELSE Let(FunctionCodegen(r.node, BackendOf(w, r.s)), LAMBDA g :
      IF ~g.ok THEN Compiled("definition", w, r, g)
      ELSE DefinitionAddModule(Compiled("definition", w, r, g),
                               r.node.Proto.Name, r.node.Body)))

\* ProtoAST->codegen() and FunctionProtos[ProtoAST->getName()] = std::move(ProtoAST).
ExternCodegen(b, Proto) ==
  Gen([PrototypeCodegen(b, Proto.Name, Proto.Args) EXCEPT
         !.FunctionProtos = Put(@, Proto.Name, Proto.Args)], TRUE)

HandleExtern(w) ==
  Let(ParseExtern(w.s), LAMBDA r :
    IF r.node = Null THEN SkipToken("extern", w, r)
    ELSE Compiled("extern", w, r, ExternCodegen(BackendOf(w, r.s), r.node)))

\* HandleTopLevelExpression once codegen succeeded, up to the call FP() of the
\* compiled code: addModule with a resource tracker,
\* InitializeModuleAndPassManager and lookup; jit is the JIT with the module
\* added.  The handler is then inside the compiled code.
TopLevelRun(w1, jit) ==
  IF addModuleFails(w1.JIT, anon_expr)
  THEN [w1 EXCEPT !.pc = "exited",
                  !.backend = Append(@, Event("addModule", anon_expr))]
  ELSE IF lookupFails(jit, anon_expr)
  THEN [InitializeModuleAndPassManager(w1) EXCEPT
          !.JIT = jit, !.pc = "exited",
          !.backend = @ \o << Event("addModule", anon_expr),
                              Event("lookup", anon_expr) >>]
  ELSE [InitializeModuleAndPassManager(w1) EXCEPT
          !.JIT = jit, !.pc = "evaluating",
          !.backend = @ \o << Event("addModule", anon_expr),
                              Event("lookup", anon_expr),
                              Event("evaluate", anon_expr) >>]

\* The rest of HandleTopLevelExpression when FP() has returned: the value is
\* printed and ExitOnErr(RT->remove()) takes the module out of the JIT.
EvaluateReturn(w) ==
  [w EXCEPT !.JIT = Erase(@, anon_expr), !.pc = "loop",
            !.backend = Append(@, Event("remove", anon_expr))]

\* A faulty HandleTopLevelExpression, which goes on to the JIT whatever
\* codegen returned.
HandleTopLevelExpressionUnchecked(w) ==
  Let(ParseTopLevelExpr(w.s), LAMBDA r :
    IF r.node = Null THEN SkipToken("toplevel", w, r)
    ELSE Let(FunctionCodegen(r.node, BackendOf(w, r.s)), LAMBDA g :
      Let(Compiled("toplevel", w, r, g), LAMBDA w1 :
        TopLevelRun(w1, Put(w1.JIT, anon_expr, Callees(r.node.Body))))))

HandleTopLevelExpression(w) ==
  Let(ParseTopLevelExpr(w.s), LAMBDA r :
    IF r.node = Null THEN SkipToken("toplevel", w, r)
    ELSE Let(FunctionCodegen(r.node, BackendOf(w, r.s)), LAMBDA g :
      IF ~g.ok THEN Compiled("toplevel", w, r, g)
      ELSE Let(Compiled("toplevel", w, r, g), LAMBDA w1 :
             TopLevelRun(w1, Put(w1.JIT, anon_expr, Callees(r.node.Body))))))

\* case ';': getNextToken();
HandleSeparator(w) ==
  Let(getNextToken(w.s), LAMBDA s1 :
    [w EXCEPT !.s = s1,
              !.units = Append(@, Unit("separator", w, Ret(w.s, Null), s1, Null))])

\* main up to the call of MainLoop.
MainStart(w) ==
  [InitializeModuleAndPassManager(w) EXCEPT
     !.s = getNextToken(InstallBinop(w.s)), !.pc = "loop"]

\* One iteration of MainLoop's while (true).
MainLoopStep(w) ==
  IF w.s.CurTok = tok_eof THEN [w EXCEPT !.pc = "done"]
  ELSE IF w.s.CurTok = ch_semi THEN HandleSeparator(w)
  ELSE IF w.s.CurTok = tok_def THEN HandleDefinition(w)
  ELSE IF w.s.CurTok = tok_extern THEN HandleExtern(w)
  ELSE HandleTopLevelExpression(w)

\* The whole session from a world in MainLoop to its end, every call of
\* compiled code returning.
RECURSIVE RunMainLoop(_)
RunMainLoop(w) ==
  IF w.pc = "loop" THEN Let(MainLoopStep(w), LAMBDA w1 : RunMainLoop(w1))
  ELSE IF w.pc = "evaluating"
  THEN Let(EvaluateReturn(w), LAMBDA w1 : RunMainLoop(w1))
  ELSE w

StartWorld(text) ==
  [s |-> [stdin |-> text, LastChar |-> SP, IdentifierStr |-> << >>,
          NumVal |-> Num(0), CurTok |-> 0, BinopPrecedence |-> EmptyMap,
          errs |-> << >>, toks |-> << >>],
   FunctionProtos |-> EmptyMap, TheModule |-> EmptyMap, NameValues |-> {},
   JIT |-> EmptyMap, pc |-> "start", units |-> << >>, backend |-> << >>]

RunSession(text) == RunMainLoop(MainStart(StartWorld(text)))

(***************************************************************************)
(* The inputs: sequences of lexemes, each followed by a space.             *)
(***************************************************************************)
MaxToks == 3
MaxUnits == 3
MaxOps == 3
MaxArgs == 3
MaxStray == 2
MaxProto == 5
MaxDigits == 3

RECURSIVE Cat(_)
Cat(ss) == IF ss = << >> THEN << >> ELSE Head(ss) \o Cat(Tail(ss))

Join(ws) == Cat([i \in 1..Len(ws) |-> ws[i] \o <<SP>>])
SeqsUpTo(S, n) == UNION {[1..k -> S] : k \in 0..n}

nm_foo == Str(<<"f", "o", "o">>)
nm_f == Str(<<"f">>)
nm_g == Str(<<"g">>)
nm_h == Str(<<"h">>)
nm_i == Str(<<"i">>)
nm_a == Str(<<"a">>)
nm_x == Str(<<"x">>)
lit(c) == <<Ord(c)>>

\* Arbitrary token sequences.
TokenVocab ==
  { kw_def, kw_extern, nm_foo, lit("("), lit(")"), lit("1"), lit("+"), lit(";") }
TokenInputs == {Join(ws) : ws \in SeqsUpTo(TokenVocab, MaxToks)}

\* Tokens that start no unit, then a well-formed definition.
StrayVocab == { lit(")"), lit(","), lit("*"), kw_then, lit("=") }
DefFoo == Join(<< kw_def, nm_foo, lit("("), lit(")"), lit("1") >>)
RecoveryInputs == {Join(ws) \o DefFoo : ws \in SeqsUpTo(StrayVocab, MaxStray)}

\* Units that break at their last token, then a well-formed definition.
BrokenVocab ==
  { Join(<< kw_def, nm_f, lit("("), lit(")"), lit(")") >>),
    Join(<< kw_def, nm_f, lit("("), lit(")"), lit("1"), lit("+"), lit(")") >>),
    Join(<< kw_def, nm_f, lit("("), lit("1") >>),
    Join(<< kw_extern, nm_f, lit("("), lit("1") >>),
    Join(<< nm_f, lit("("), lit("1"), lit(";") >>),
    Join(<< lit("("), lit("1"), lit(";") >>),
    Join(<< kw_if, lit("1"), kw_then, lit("2"), lit(";") >>),
    Join(<< kw_for, nm_i, lit("="), lit("1"), kw_in >>) }
BrokenInputs == {Cat(us) \o DefFoo : us \in SeqsUpTo(BrokenVocab, MaxStray)}

\* Binary chains 1 op 2 op 3 ..., written without spaces.
Operators == { ch_lt, ch_gt, ch_plus, ch_minus, ch_star, ch_slash }
Chain(ops) == <<Ord("1")>> \o Cat([i \in 1..Len(ops) |-> <<ops[i], Ord("1") + i>>])
ChainInputs == {Chain(ops) : ops \in SeqsUpTo(Operators, MaxOps)}

\* x op1 g() op2 (3): a variable, a call and a parenthesis as operands.
MixedChain(op1, op2) ==
  nm_x \o <<op1>> \o Str(<<"g", "(", ")">>) \o <<op2>> \o Str(<<"(", "3", ")">>)
MixedChainInputs == {MixedChain(o[1], o[2]) : o \in Operators \X Operators}

\* Calls f(e1, ..., en).
ArgTexts ==
  { lit("1"), nm_x, Str(<<"2", "+", "3">>), Str(<<"g", "(", ")">>) }
CallText(as) ==
  nm_f \o lit("(")
       \o Cat([i \in 1..Len(as) |-> IF i = 1 THEN as[i] ELSE lit(",") \o as[i]])
       \o lit(")")
CallInputs == {CallText(as) : as \in SeqsUpTo(ArgTexts, MaxArgs)}

\* Loops for i = s, e [, t] in b.
ForTexts == { lit("1"), nm_i, Str(<<"2", "*", "3">>) }
ForHead(st, en) ==
  Join(<< kw_for, nm_i, lit("="), st >>) \o Join(<< lit(","), en >>)
ForInputs ==
  {ForHead(x[1], x[2]) \o Join(<< kw_in, x[3] >>)
     : x \in ForTexts \X ForTexts \X ForTexts}
  \cup {ForHead(x[1], x[2]) \o Join(<< lit(","), x[3], kw_in, x[4] >>)
     : x \in ForTexts \X ForTexts \X ForTexts \X ForTexts}

\* Comments, ended by \n, by \r or by the end of the input, among tokens and
\* an end-of-file the terminal reports before more input.
CommentVocab ==
  { Str(<<"4", "2">>) \o <<SP>>, nm_x \o <<SP>>, lit("+"),
    Str(<<"#", "c", " ", "1">>) \o <<NL>>, Str(<<"#", "d">>) \o <<CR>>,
    Str(<<"#", "e">>), <<EOF>> }
CommentInputs == {Cat(ws) : ws \in SeqsUpTo(CommentVocab, MaxToks)}

\* An end-of-file the terminal reports in the middle of a unit or at the end
\* of a comment, and the text typed after it.
EofHeads ==
  { << >>, lit("1"), Str(<<"x", "+">>), Str(<<"x", "+", "#", "e">>),
    Str(<<"#", "e">>), kw_extern, Str(<<"d", "e", "f", " ", "f", "(">>) }
EofTails ==
  { << >>, Str(<<"4", "2", " ">>), Str(<<"+", "1", " ">>),
    Str(<<")", " ", "f", " ">>) }
EofInputs == {h \o <<EOF>> \o tl : h \in EofHeads, tl \in EofTails}

\* extern followed by tokens a prototype is made of, in any order.
ProtoVocab == { nm_f, nm_a, lit("("), lit(")"), lit(",") }
ProtoInputs == {Join(<< kw_extern >>) \o Join(ws) : ws \in SeqsUpTo(ProtoVocab, MaxProto)}

\* Numeric text, well-formed or not, alone on the input.
DigitChars == { Ord("0"), Ord("2"), Ord("5"), ch_dot }
NumeralInputs ==
  {d \o <<SP>> : d \in SeqsUpTo(DigitChars, MaxDigits) \ {<< >>}}

\* Lines with one unit each, no lexeme written twice on a line.
LexemeVocab ==
  { Str(<<"1", "2">>) \o <<NL>>,
    Str(<<"3", ".", "5">>) \o <<NL>>,
    Str(<<"x", "7">>) \o <<NL>>,
    Str(<<"f", "(", "y", "z", ")">>) \o <<NL>>,
    Str(<<"f", "o", "r", " ", "i", "=", "1", ",", "k", " ", "i", "n", " ", "j">>) \o <<NL>>,
    Str(<<"d", "e", "f", " ", "h", "(", "a", " ", "b", ")", " ", "b">>) \o <<NL>>,
    Str(<<"e", "x", "t", "e", "r", "n", " ", "g", "(", "p", " ", "q", ")">>) \o <<NL>> }
LexemeInputs == {Cat(us) : us \in SeqsUpTo(LexemeVocab, MaxUnits)}

\* Sequences of top-level units.
UnitVocab ==
  { Join(<< kw_def, nm_f, lit("("), lit(")"), lit("1") >>),
    Join(<< kw_def, nm_f, lit("("), nm_a, lit(")"), nm_a >>),
    Join(<< kw_def, nm_g, lit("("), lit(")"), nm_f, lit("("), lit(")") >>),
    Join(<< kw_def, nm_h, lit("("), lit(")"), nm_x >>),
    Join(<< kw_extern, nm_f, lit("("), lit(")") >>),
    Join(<< nm_f, lit("("), lit(")"), lit(";") >>),
    Join(<< lit("1") >>) }
UnitInputs == {Cat(us) : us \in SeqsUpTo(UnitVocab, MaxUnits)}

Inputs ==
  TokenInputs \cup RecoveryInputs \cup BrokenInputs \cup ChainInputs
    \cup MixedChainInputs \cup CallInputs
    \cup ForInputs \cup CommentInputs \cup EofInputs \cup ProtoInputs
    \cup NumeralInputs \cup LexemeInputs
    \cup UnitInputs

(***************************************************************************)
(* The state machine                                                       *)
(***************************************************************************)
World ==
  [s |-> [stdin |-> stdin, LastChar |-> LastChar,
          IdentifierStr |-> IdentifierStr, NumVal |-> NumVal, CurTok |-> CurTok,
          BinopPrecedence |-> BinopPrecedence, errs |-> errs, toks |-> toks],
   FunctionProtos |-> FunctionProtos, TheModule |-> TheModule,
   NameValues |-> NameValues, JIT |-> JIT, pc |-> pc, units |-> units,
   backend |-> backend]

Become(w) ==
  /\ stdin' = w.s.stdin
  /\ LastChar' = w.s.LastChar
  /\ IdentifierStr' = w.s.IdentifierStr
  /\ NumVal' = w.s.NumVal
  /\ CurTok' = w.s.CurTok
  /\ BinopPrecedence' = w.s.BinopPrecedence
  /\ errs' = w.s.errs
  /\ toks' = w.s.toks
  /\ FunctionProtos' = w.FunctionProtos
  /\ TheModule' = w.TheModule
  /\ NameValues' = w.NameValues
  /\ JIT' = w.JIT
  /\ pc' = w.pc
  /\ units' = w.units
  /\ backend' = w.backend
  /\ input' = input

Init ==
  /\ stdin \in Inputs
  /\ LastChar = SP
  /\ IdentifierStr = << >>
  /\ NumVal = Num(0)
  /\ CurTok = 0
  /\ BinopPrecedence = EmptyMap
  /\ errs = << >>
  /\ toks = << >>
  /\ FunctionProtos = EmptyMap
  /\ TheModule = EmptyMap
  /\ NameValues = {}
  /\ JIT = EmptyMap
  /\ pc = "start"
  /\ units = << >>
  /\ backend = << >>
  /\ input = stdin

\* The step from the current state to the world w.
Step(w) == \E w1 \in {w} : Become(w1)

Main == pc = "start" /\ Step(MainStart(World))

MainLoopReturn == pc = "loop" /\ CurTok = tok_eof /\ Step(MainLoopStep(World))

MainLoopSeparator == pc = "loop" /\ CurTok = ch_semi /\ Step(MainLoopStep(World))

MainLoopDefinition == pc = "loop" /\ CurTok = tok_def /\ Step(MainLoopStep(World))

MainLoopExtern == pc = "loop" /\ CurTok = tok_extern /\ Step(MainLoopStep(World))

MainLoopTopLevelExpression ==
  /\ pc = "loop"
  /\ CurTok \notin {tok_eof, ch_semi, tok_def, tok_extern}
  /\ Step(MainLoopStep(World))

\* The compiled top-level expression returns to HandleTopLevelExpression.
TopLevelExpressionReturn == pc = "evaluating" /\ Step(EvaluateReturn(World))

Next ==
  \/ Main
  \/ MainLoopReturn
  \/ MainLoopSeparator
  \/ MainLoopDefinition
  \/ MainLoopExtern
  \/ MainLoopTopLevelExpression
  \/ TopLevelExpressionReturn

Spec == Init /\ [][Next]_vars

\* The loop runs on until it returns or the process exits: nothing else is
\* scheduled.  Every call of compiled code is taken to return here; a
\* compiled loop that never ends keeps the session at pc = "evaluating".
FairSpec == Spec /\ WF_vars(Next)

(***************************************************************************)
(* Properties                                                              *)
(***************************************************************************)
Ended == pc \in {"done", "exited"}
Failed(u) == u.handler # "separator" /\ u.node = Null
Num1 == NumberExprAST(Num(1))
FooDefinition == FunctionAST(PrototypeAST(nm_foo, << >>), Num1)

\* C1: a handler whose production failed reads exactly one more token after
\* the production stopped and MainLoop goes on from there; when stray tokens
\* that start no unit are followed by def foo() 1, each stray token fails at
\* once and is skipped alone, and the definition parses to a Function with no
\* parameter and the body Number(1); so it does after units that break at
\* their last token.
C1_RecoveryConsumesOneToken ==
  /\ \A i \in 1..Len(units) :
       /\ Failed(units[i]) =>
            /\ units[i].endTok = units[i].prodTok + 1
            /\ units[i].endTok <= Len(toks)
            /\ units[i].nerr = 1
       /\ i < Len(units) => units[i + 1].startTok = units[i].endTok
  /\ (pc = "done" /\ input \in RecoveryInputs) =>
       /\ units[Len(units)].handler = "definition"
       /\ units[Len(units)].node = FooDefinition
       /\ \A i \in 1..(Len(units) - 1) :
            /\ Failed(units[i])
            /\ units[i].prodTok = units[i].startTok
       /\ Len(errs) = Len(units) - 1
  /\ (pc = "done" /\ input \in BrokenInputs) =>
       /\ units[Len(units)].handler = "definition"
       /\ units[Len(units)].node = FooDefinition
       /\ \A i \in 1..(Len(units) - 1) : Failed(units[i])
       /\ Len(errs) = Len(units) - 1

C1_Witness ==
  /\ pc = "done"
  /\ input = Join(<< lit(")") >>) \o DefFoo
  /\ Len(units) = 2
  /\ Failed(units[1])
  /\ units[2].node = FooDefinition

\* Whether a node is whole: every child the node kind requires is there.
RECURSIVE Complete(_)
Complete(n) ==
  IF n.kind = "Number" \/ n.kind = "Variable" THEN TRUE
  ELSE IF n.kind = "Binary" THEN Complete(n.LHS) /\ Complete(n.RHS)
  ELSE IF n.kind = "Call" THEN \A i \in 1..Len(n.Args) : Complete(n.Args[i])
  ELSE IF n.kind = "If" THEN Complete(n.Cond) /\ Complete(n.Then) /\ Complete(n.Else)
  ELSE IF n.kind = "For"
  THEN /\ Complete(n.Start) /\ Complete(n.End) /\ Complete(n.Body)
       /\ (n.Step # Null => Complete(n.Step))
  ELSE IF n.kind = "Prototype" THEN TRUE
  ELSE IF n.kind = "Function" THEN Complete(n.Proto) /\ Complete(n.Body)
  ELSE FALSE

CodegenArgs == SelectSeq(backend, LAMBDA e : e.op = "codegen")
SentUnits == SelectSeq(units, LAMBDA u : u.sent # Null)

\* C2: codegen is called only on the node a production returned, a whole
\* node of a production that wrote no diagnostic; a unit whose production
\* failed or wrote a diagnostic hands nothing to codegen.
C2_NoPartialAstToBackend ==
  /\ \A i \in 1..Len(units) :
       /\ units[i].sent # Null =>
            /\ units[i].sent = units[i].node
            /\ units[i].nerr = 0
            /\ Complete(units[i].node)
       /\ (units[i].node = Null \/ units[i].nerr > 0) => units[i].sent = Null
  /\ Len(CodegenArgs) = Len(SentUnits)
  /\ \A k \in 1..Len(CodegenArgs) : CodegenArgs[k].arg = SentUnits[k].sent

\* def f() 1 + ) : the prototype and the left operand are parsed, the right
\* operand fails, and nothing is sent.
C2_Witness ==
  \E i \in 1..Len(units) :
    /\ units[i].handler = "definition"
    /\ units[i].node = Null
    /\ units[i].prodTok = units[i].startTok + 6
    /\ units[i].sent = Null
    /\ CodegenArgs = << >>

\* Every pass of MainLoop that handles a unit reads at least one token.
IterationConsumesToken ==
  \A i \in 1..Len(units) : units[i].endTok > units[i].startTok

\* C3: the session never hangs: every pass of MainLoop short of the end
\* reads at least one token, so MainLoop comes to its return at tok_eof.
C3_SessionReachesDone == <>(pc = "done")

\* C4: the session ends only when gettoken has returned tok_eof; no failure
\* (a bad token, a parse error, a name defined a second time) ends it before.
C4_EndsOnlyAtEof == Ended => (pc = "done" /\ CurTok = tok_eof)

\* C5: once gettoken has returned tok_eof, every later call returns tok_eof,
\* whether the end was met among tokens or at the end of a # comment, and
\* whatever stdin would still deliver.
C5_EofIsSticky ==
  \A i \in 1..Len(toks) : \A j \in i..Len(toks) :
    toks[i] = tok_eof => toks[j] = tok_eof

\* x+#e, the end of the file, then 42: the comment runs into the end, and
\* the token read in recovery is tok_eof again though stdin holds more.
C5_Witness ==
  /\ input = Str(<<"x", "+", "#", "e">>) \o <<EOF>> \o Str(<<"4", "2", " ">>)
  /\ toks = << tok_identifier, ch_plus, tok_eof, tok_eof >>
  /\ stdin # << >>

TopLevel(body) == FunctionAST(PrototypeAST(anon_expr, << >>), body)
Operand(k) == NumberExprAST(Num(k))
TablePrec(op) == InstallBinop([BinopPrecedence |-> EmptyMap]).BinopPrecedence[op]

\* The operators of an input 1 op 2 op 3 ...
InputOps == [i \in 1..((Len(input) - 1) \div 2) |-> input[2 * i]]
IsChain ==
  /\ Len(input) % 2 = 1
  /\ \A i \in 1..Len(InputOps) : InputOps[i] \in Operators
  /\ input = Chain(InputOps)

\* ((1 op 2) op 3) ... op k+1
RECURSIVE LeftNest(_, _)
LeftNest(ops, k) ==
  IF k = 0 THEN Operand(1)
  ELSE BinaryExprAST(ops[k], LeftNest(ops, k - 1), Operand(k + 1))

\* The operands of x op1 g() op2 (3).
MixedA == VariableExprAST(nm_x)
MixedB == CallExprAST(nm_g, << >>)
MixedC == Operand(3)
IsMixed == Len(input) = 9 /\ Head(input) = Ord("x") /\ units # << >>

\* C6: operators of equal precedence group to the left: a op1 b op2 c is
\* (a op1 b) op2 c, whatever primaries a, b, c are, and so on along a longer
\* chain.
C6_EqualPrecedenceLeftAssociative ==
  /\ ( /\ IsChain /\ units # << >>
       /\ Len(InputOps) >= 2
       /\ \A i, j \in 1..Len(InputOps) :
            TablePrec(InputOps[i]) = TablePrec(InputOps[j]) )
     => units[1].node = TopLevel(LeftNest(InputOps, Len(InputOps)))
  /\ IsMixed =>
       \A o \in Operators \X Operators :
         (input = MixedChain(o[1], o[2]) /\ TablePrec(o[1]) = TablePrec(o[2])) =>
           units[1].node =
             TopLevel(BinaryExprAST(o[2], BinaryExprAST(o[1], MixedA, MixedB), MixedC))

C6_Witness ==
  /\ input = Str(<<"1", "-", "2", "+", "3">>)
  /\ pc = "done"
  /\ units[1].node =
       TopLevel(BinaryExprAST(ch_plus,
                  BinaryExprAST(ch_minus, Operand(1), Operand(2)), Operand(3)))

\* The tree of operands lo..hi by the grammar: the root is the last of the
\* operators of least precedence.
Root(ops, lo, hi) ==
  CHOOSE k \in lo..(hi - 1) :
    \A j \in lo..(hi - 1) :
      /\ TablePrec(ops[k]) <= TablePrec(ops[j])
      /\ j > k => TablePrec(ops[k]) < TablePrec(ops[j])

RECURSIVE RefTree(_, _, _)
RefTree(ops, lo, hi) ==
  IF lo = hi THEN Operand(lo)
  ELSE BinaryExprAST(ops[Root(ops, lo, hi)],
                     RefTree(ops, lo, Root(ops, lo, hi)),
                     RefTree(ops, Root(ops, lo, hi) + 1, hi))

\* C7: an operator of higher precedence after a lower one takes the operand
\* between them: a op1 b op2 c is a op1 (b op2 c); a longer chain gives the
\* tree of the grammar with these precedences.
C7_HigherPrecedenceNestsRight ==
  /\ (IsChain /\ units # << >>) =>
       /\ units[1].node = TopLevel(RefTree(InputOps, 1, Len(InputOps) + 1))
       /\ (Len(InputOps) = 2 /\ TablePrec(InputOps[1]) < TablePrec(InputOps[2])) =>
            units[1].node =
              TopLevel(BinaryExprAST(InputOps[1], Operand(1),
                         BinaryExprAST(InputOps[2], Operand(2), Operand(3))))
  /\ IsMixed =>
       \A o \in Operators \X Operators :
         (input = MixedChain(o[1], o[2]) /\ TablePrec(o[1]) < TablePrec(o[2])) =>
           units[1].node =
             TopLevel(BinaryExprAST(o[1], MixedA, BinaryExprAST(o[2], MixedB, MixedC)))

C7_Witness ==
  /\ input = Str(<<"1", "+", "2", "*", "3">>)
  /\ pc = "done"
  /\ units[1].node =
       TopLevel(BinaryExprAST(ch_plus, Operand(1),
                  BinaryExprAST(ch_star, Operand(2), Operand(3))))

\* The node of each argument text.
ArgNode(text) ==
  IF text = lit("1") THEN Operand(1)
  ELSE IF text = nm_x THEN VariableExprAST(nm_x)
  ELSE IF text = Str(<<"2", "+", "3">>)
  THEN BinaryExprAST(ch_plus, Operand(2), Operand(3))
  ELSE CallExprAST(nm_g, << >>)
IsCall == Len(input) >= 3 /\ SubSeq(input, 1, 2) = nm_f \o lit("(")

\* C8: the arguments of a call are parsed and kept in the order written:
\* f(e1, ..., en) is Call(f, <<e1, ..., en>>), and f() has no argument.
C8_CallArgumentsInOrder ==
  (IsCall /\ units # << >>) =>
    \A as \in SeqsUpTo(ArgTexts, MaxArgs) :
      input = CallText(as) =>
        units[1].node =
          TopLevel(CallExprAST(nm_f, [i \in 1..Len(as) |-> ArgNode(as[i])]))

C8_Witness ==
  /\ input = CallText(<< Str(<<"2", "+", "3">>), nm_x, Str(<<"g", "(", ")">>) >>)
  /\ units # << >>
  /\ units[1].node.Body.Args =
       << BinaryExprAST(ch_plus, Operand(2), Operand(3)), VariableExprAST(nm_x),
          CallExprAST(nm_g, << >>) >>

\* The node of each text used in a loop.
ForNode(text) ==
  IF text = lit("1") THEN Operand(1)
  ELSE IF text = nm_i THEN VariableExprAST(nm_i)
  ELSE BinaryExprAST(ch_star, Operand(2), Operand(3))
IsFor == Len(input) >= 4 /\ SubSeq(input, 1, 4) = kw_for \o <<SP>>

\* C9: a for without the step clause has no Step node (it is absent, not the
\* number 1.0); a for with the clause has the parsed expression as Step.
C9_ForStepAbsentOrParsed ==
  (IsFor /\ units # << >>) =>
    /\ \A x \in ForTexts \X ForTexts \X ForTexts :
         input = ForHead(x[1], x[2]) \o Join(<< kw_in, x[3] >>) =>
           /\ units[1].node =
                TopLevel(ForExprAST(nm_i, ForNode(x[1]), ForNode(x[2]), Null,
                                    ForNode(x[3])))
           /\ units[1].node.Body.Step # Operand(1)
    /\ \A x \in ForTexts \X ForTexts \X ForTexts \X ForTexts :
         input = ForHead(x[1], x[2]) \o Join(<< lit(","), x[3], kw_in, x[4] >>) =>
           units[1].node =
             TopLevel(ForExprAST(nm_i, ForNode(x[1]), ForNode(x[2]),
                                 ForNode(x[3]), ForNode(x[4])))

C9_Witness ==
  /\ input = ForHead(lit("1"), nm_i) \o Join(<< kw_in, Str(<<"2", "*", "3">>) >>)
  /\ units # << >>
  /\ units[1].node.kind = "Function"
  /\ units[1].node.Body.kind = "For"
  /\ units[1].node.Body.Step = Null

\* The text without its comments: each # and what follows it up to the next
\* \n, \r or end of file is taken out.
RECURSIVE DropComment(_)
DropComment(text) ==
  IF text = << >> \/ Head(text) \in {NL, CR, EOF} THEN text
  ELSE DropComment(Tail(text))

RECURSIVE StripComments(_)
StripComments(text) ==
  IF text = << >> THEN << >>
  ELSE IF Head(text) = ch_hash THEN StripComments(DropComment(Tail(text)))
  ELSE <<Head(text)>> \o StripComments(Tail(text))

HasComment == \E k \in 1..Len(input) : input[k] = ch_hash
Outcome(w) ==
  [toks |-> w.s.toks, errs |-> w.s.errs, units |-> w.units,
   backend |-> w.backend, pc |-> w.pc]

\* C10: a # comment gives no token and no diagnostic of its own: the session
\* is the one of the text without its comments; the comment line followed by
\* 42 is the single unit Number(42), and a comment that runs to the end of
\* the input gives tok_eof.
C10_CommentsInvisible ==
  /\ \A i \in 1..Len(toks) : toks[i] # ch_hash
  /\ (Ended /\ HasComment) =>
       Outcome(World) = Outcome(RunSession(StripComments(input)))
  /\ (pc = "done" /\ input = Str(<<"#", "c", " ", "1">>) \o <<NL>> \o Str(<<"4", "2", " ">>)) =>
       /\ Len(units) = 1
       /\ units[1].node = TopLevel(Operand(42))
       /\ errs = << >>
  /\ (pc = "done" /\ input = Str(<<"#", "e">>)) =>
       (toks = << tok_eof >> /\ units = << >> /\ errs = << >>)

C10_Witness ==
  /\ pc = "done"
  /\ input = Str(<<"#", "c", " ", "1">>) \o <<NL>> \o Str(<<"4", "2", " ">>)
  /\ toks = << tok_number, tok_eof >>
  /\ units[1].node = TopLevel(Operand(42))

ParsedUnits == SelectSeq(units, LAMBDA u : u.node # Null)
DefF1 == FunctionAST(PrototypeAST(nm_f, << >>), Num1)

\* C11: codegen is called on the nodes of the units that parsed, in the order
\* of the units in the input, and each call has returned before a token of a
\* later unit is read: no token is read between the return of the production
\* and the end of the handler, and the next unit starts there.
C11_BackendInInputOrder ==
  /\ Len(CodegenArgs) = Len(ParsedUnits)
  /\ \A k \in 1..Len(CodegenArgs) : CodegenArgs[k].arg = ParsedUnits[k].node
  /\ \A k \in 1..Len(backend) :
       backend[k].op = "codegen" =>
         (k < Len(backend) /\ backend[k + 1].op = "codegenReturn")
  /\ \A i \in 1..Len(units) :
       units[i].node # Null =>
         /\ units[i].endTok = units[i].prodTok
         /\ i < Len(units) => units[i + 1].startTok = units[i].prodTok

\* def f() 1, then f() ;, then 1: three units reach codegen, in that order.
C11_Witness ==
  /\ pc = "done"
  /\ Len(CodegenArgs) = 3
  /\ CodegenArgs[1].arg = DefF1
  /\ CodegenArgs[2].arg = TopLevel(CallExprAST(nm_f, << >>))
  /\ CodegenArgs[3].arg = TopLevel(Operand(1))

\* C12: the compiled code of a top-level expression is called and its module
\* removed only after codegen of that unit returned non-null, addModule and
\* lookup, and the removal follows the call at once, before anything is done
\* for the next unit and with no token read since the production returned;
\* after a codegen that returned null nothing is called or removed.
C12_EvaluateAndRetireInPlace ==
  /\ \A k \in 1..Len(backend) :
       /\ backend[k].op = "evaluate" =>
            /\ k >= 5
            /\ backend[k - 4].op = "codegen"
            /\ backend[k - 4].arg.kind = "Function"
            /\ backend[k - 4].arg.Proto.Name = anon_expr
            /\ backend[k - 3] = Event("codegenReturn", TRUE)
            /\ backend[k - 2] = Event("addModule", anon_expr)
            /\ backend[k - 1] = Event("lookup", anon_expr)
            /\ k < Len(backend) => backend[k + 1].op = "remove"
            /\ k = Len(backend) => pc = "evaluating"
       /\ backend[k].op = "remove" => (k > 1 /\ backend[k - 1].op = "evaluate")
       /\ backend[k] = Event("codegenReturn", FALSE) =>
            (k = Len(backend) \/ backend[k + 1].op = "codegen")
  /\ pc = "evaluating" =>
       /\ backend # << >> /\ backend[Len(backend)].op = "evaluate"
       /\ units # << >> /\ units[Len(units)].handler = "toplevel"
  /\ units # << >> => Len(toks) = units[Len(units)].endTok

\* 1 1: the first expression is called and removed, then the second unit is
\* handed to codegen, having started at the token the first one ended at.
C12_Witness ==
  /\ Len(backend) >= 7
  /\ backend[5].op = "evaluate"
  /\ backend[6].op = "remove"
  /\ backend[7].op = "codegen"
  /\ backend[7].arg = TopLevel(Operand(1))
  /\ units[2].startTok = units[1].endTok

\* C13: every top-level expression that parses is wrapped in a Function named
\* __anon_expr with no parameter, the same for consecutive expressions; no
\* definition or extern can carry that name.
C13_FixedSyntheticName ==
  \A i \in 1..Len(units) :
    /\ (units[i].handler = "toplevel" /\ units[i].node # Null) =>
         /\ units[i].node.kind = "Function"
         /\ units[i].node.Proto =
              PrototypeAST(Str(<<"_", "_", "a", "n", "o", "n", "_", "e", "x", "p", "r">>),
                           << >>)
         /\ ( /\ i < Len(units)
              /\ units[i + 1].handler = "toplevel" /\ units[i + 1].node # Null )
            => units[i + 1].node.Proto = units[i].node.Proto
    /\ (units[i].handler = "definition" /\ units[i].node # Null) =>
         units[i].node.Proto.Name # anon_expr
    /\ (units[i].handler = "extern" /\ units[i].node # Null) =>
         units[i].node.Name # anon_expr

\* x 42: two expressions one after the other, both wrapped under the name.
C13_Witness ==
  /\ Len(units) = 2
  /\ units[1].node = FunctionAST(PrototypeAST(anon_expr, << >>), VariableExprAST(nm_x))
  /\ units[2].node = FunctionAST(PrototypeAST(anon_expr, << >>), Operand(42))

InstalledTable == InstallBinop([BinopPrecedence |-> EmptyMap]).BinopPrecedence

\* What stays of the table: the six operators keep their precedences and
\* every other key holds 0, which GetTokPrecedence reports as -1.
TableOperatorsKept ==
  pc # "start" =>
    /\ DOMAIN InstalledTable \subseteq DOMAIN BinopPrecedence
    /\ \A c \in DOMAIN BinopPrecedence :
         BinopPrecedence[c] = (IF c \in DOMAIN InstalledTable THEN InstalledTable[c] ELSE 0)

\* C14: BinopPrecedence is set by InstallBinop at the start of main and its
\* contents never change afterwards, whatever character a precedence is
\* looked up for.
C14_TableNeverMutated == pc # "start" => BinopPrecedence = InstalledTable

FailedUnits == SelectSeq(units, LAMBDA u : Failed(u))

\* C15: a production that fails has written exactly one diagnostic when it
\* returns, however deep the failure was, and so before the handler skips a
\* token; the skip writes none; a production that succeeds has written none.
C15_OneDiagnosticPerFailure ==
  /\ \A i \in 1..Len(units) :
       units[i].handler # "separator" =>
         units[i].nerr = (IF units[i].node = Null THEN 1 ELSE 0)
  /\ SentUnits = << >> => Len(errs) = Len(FailedUnits)

\* ( ( ) : the failure is two parentheses deep and is reported once.
C15_Witness ==
  /\ input = Join(<< lit("("), lit("("), lit(")") >>)
  /\ Len(units) = 1
  /\ Failed(units[1])
  /\ units[1].prodTok = 3
  /\ errs = << "unknown token when expecting an expression" >>

\* ParseBinOpRHS applied in the current state.
ChainFrom(ExprPrec, LHS) == ParseBinOpRHS(ExprPrec, LHS, World.s)
ChainLefts == { Operand(1), VariableExprAST(nm_x), BinaryExprAST(ch_plus, Operand(1), Operand(2)) }
ChainPrecs == { 0, 11, 21, 41 }

\* C16: when the current token is no operator of the table (another
\* character, a keyword, an identifier, a number, tok_eof), ParseBinOpRHS
\* returns the left operand it was given, writes no diagnostic, reads nothing
\* and leaves that token the current one.
C16_NonOperatorEndsChain ==
  (pc # "start" /\ CurTok \notin DOMAIN InstalledTable) =>
    \A LHS \in ChainLefts : \A ExprPrec \in ChainPrecs :
      /\ ChainFrom(ExprPrec, LHS).node = LHS
      /\ ChainFrom(ExprPrec, LHS).s.CurTok = CurTok
      /\ ChainFrom(ExprPrec, LHS).s.errs = errs
      /\ ChainFrom(ExprPrec, LHS).s.toks = toks
      /\ ChainFrom(ExprPrec, LHS).s.stdin = stdin
      /\ ChainFrom(ExprPrec, LHS).s.LastChar = LastChar

\* 1 then ( : the expression 1 has ended at the parenthesis, which is no
\* operator; nothing was reported and the parenthesis is the current token.
C16_Witness ==
  /\ input = Join(<< lit("1"), lit("("), lit("1") >>)
  /\ Len(units) = 1
  /\ units[1].node = TopLevel(Operand(1))
  /\ units[1].prodTok = 2
  /\ CurTok = ch_lparen
  /\ errs = << >>

\* The words after extern in an input of ProtoInputs, each one character.
ProtoWords == [i \in 1..((Len(input) - 7) \div 2) |-> << input[6 + 2 * i] >>]
IsName(word) == word \in {nm_f, nm_a}

\* The number of names in ws from position k on, up to the first other word.
RECURSIVE LeadingNames(_, _)
LeadingNames(ws, k) ==
  IF k <= Len(ws) /\ IsName(ws[k]) THEN 1 + LeadingNames(ws, k + 1) ELSE 0

\* The grammar: a name, '(', names, ')'.
ProtoAccepted(ws) ==
  /\ Len(ws) >= 3 /\ IsName(ws[1]) /\ ws[2] = lit("(")
  /\ 3 + LeadingNames(ws, 3) <= Len(ws)
  /\ ws[3 + LeadingNames(ws, 3)] = lit(")")
\* The number of tokens read when the production returns, extern included.
ProtoStopsAt(ws) ==
  IF Len(ws) = 0 \/ ~IsName(ws[1]) THEN 2
  ELSE IF Len(ws) = 1 \/ ws[2] # lit("(") THEN 3
  ELSE IF ProtoAccepted(ws) THEN 5 + LeadingNames(ws, 3)
  ELSE 4 + LeadingNames(ws, 3)

\* C17: a prototype is a name, '(', any number of names with nothing between
\* them, ')': it gives Prototype(name, names) with the names in order,
\* repeated ones kept, and the ')' read past; without the name, without the
\* '(' or with another token than ')' after the names (a comma too) the
\* production fails there.
C17_PrototypeGrammar ==
  (input \in ProtoInputs /\ units # << >>) =>
    /\ units[1].handler = "extern"
    /\ units[1].prodTok = ProtoStopsAt(ProtoWords)
    /\ units[1].node =
         (IF ProtoAccepted(ProtoWords)
          THEN PrototypeAST(ProtoWords[1],
                 SubSeq(ProtoWords, 3, 2 + LeadingNames(ProtoWords, 3)))
          ELSE Null)

\* extern f ( a a ) : the name a is kept twice.
C17_Witness ==
  /\ input = Join(<< kw_extern, nm_f, lit("("), nm_a, nm_a, lit(")") >>)
  /\ units # << >>
  /\ units[1].node = PrototypeAST(nm_f, << nm_a, nm_a >>)
  /\ units[1].prodTok = 7

\* The lines of a text, without their line ends.
RECURSIVE Lines(_, _)
Lines(text, cur) ==
  IF text = << >> THEN << >>
  ELSE IF Head(text) = NL THEN << cur >> \o Lines(Tail(text), << >>)
  ELSE Lines(Tail(text), Append(cur, Head(text)))

\* The node each line of LexemeVocab stands for, read off its text.
LexemeNode(line) ==
  CASE line = Str(<<"1", "2">>) -> TopLevel(NumberExprAST([M |-> 12, E |-> 0]))
    [] line = Str(<<"3", ".", "5">>) -> TopLevel(NumberExprAST([M |-> 35, E |-> 1]))
    [] line = Str(<<"x", "7">>) -> TopLevel(VariableExprAST(Str(<<"x", "7">>)))
    [] line = Str(<<"f", "(", "y", "z", ")">>) -> TopLevel(CallExprAST(nm_f, << VariableExprAST(Str(<<"y", "z">>)) >>))
    [] line = Str(<<"f", "o", "r", " ", "i", "=", "1", ",", "k", " ", "i", "n", " ", "j">>) ->
         TopLevel(ForExprAST(nm_i, NumberExprAST([M |-> 1, E |-> 0]), VariableExprAST(Str(<<"k">>)), Null, VariableExprAST(Str(<<"j">>))))
    [] line = Str(<<"d", "e", "f", " ", "h", "(", "a", " ", "b", ")", " ", "b">>) -> FunctionAST(PrototypeAST(nm_h, << nm_a, Str(<<"b">>) >>), VariableExprAST(Str(<<"b">>)))
    [] line = Str(<<"e", "x", "t", "e", "r", "n", " ", "g", "(", "p", " ", "q", ")">>) -> PrototypeAST(nm_g, << Str(<<"p">>), Str(<<"q">>) >>)

\* The value a decimal literal denotes: its digits as an integer, over ten to
\* the number of digits behind the point.
RECURSIVE IntOf(_)
IntOf(ds) ==
  IF ds = << >> THEN 0
  ELSE 10 * IntOf(SubSeq(ds, 1, Len(ds) - 1)) + (ds[Len(ds)] - 48)
Points(text) == {i \in 1..Len(text) : text[i] = ch_dot}
ValidLiteral(text) ==
  Cardinality(Points(text)) <= 1 /\ \E i \in 1..Len(text) : isdigit(text[i])
DecimalValue(text) ==
  Normal([M |-> IntOf(SelectSeq(text, isdigit)),
          E |-> IF Points(text) = {} THEN 0
                ELSE Len(text) - (CHOOSE i \in Points(text) : TRUE)])
Literal == SubSeq(input, 1, Len(input) - 1)

\* C18: the names and values in a node are the lexemes of the tokens the node
\* was parsed from, never those of a later token (number values, variable
\* names, callees, loop variables, prototype names and parameters); a valid
\* decimal literal n alone parses to Number(n) and no diagnostic is written.
C18_NodesHoldTheirLexemes ==
  /\ input \in LexemeInputs =>
       \A i \in 1..Len(units) :
         units[i].node = LexemeNode(Lines(input, << >>)[i])
  /\ (input \in NumeralInputs /\ ValidLiteral(Literal)) =>
       /\ errs = << >>
       /\ \A i \in 1..Len(units) :
            i = 1 /\ units[i].node = TopLevel(NumberExprAST(DecimalValue(Literal)))

\* 12, then 3.5, then f(yz): each node holds its own lexemes.
C18_Witness ==
  /\ input = Str(<<"1", "2">>) \o <<NL>> \o Str(<<"3", ".", "5">>) \o <<NL>> \o Str(<<"f", "(", "y", "z", ")">>) \o <<NL>>
  /\ Len(units) = 3
  /\ units[1].node = TopLevel(NumberExprAST([M |-> 12, E |-> 0]))
  /\ units[2].node = TopLevel(NumberExprAST([M |-> 35, E |-> 1]))
  /\ units[3].node = TopLevel(CallExprAST(nm_f, << VariableExprAST(Str(<<"y", "z">>)) >>))

\* The tokens a node is written with, in order, parentheses left out.
RECURSIVE NodeTokens(_), ArgTokens(_, _)
NodeTokens(n) ==
  CASE n.kind = "Number" -> << tok_number >>
    [] n.kind = "Variable" -> << tok_identifier >>
    [] n.kind = "Binary" -> NodeTokens(n.LHS) \o << n.Op >> \o NodeTokens(n.RHS)
    [] n.kind = "Call" -> << tok_identifier >> \o ArgTokens(n.Args, 1)
    [] n.kind = "If" ->
         << tok_if >> \o NodeTokens(n.Cond) \o << tok_then >> \o NodeTokens(n.Then)
           \o << tok_else >> \o NodeTokens(n.Else)
    [] n.kind = "For" ->
         << tok_for, tok_identifier, ch_eq >> \o NodeTokens(n.Start)
           \o << ch_comma >> \o NodeTokens(n.End)
           \o (IF n.Step = Null THEN << >> ELSE << ch_comma >> \o NodeTokens(n.Step))
           \o << tok_in >> \o NodeTokens(n.Body)
    [] n.kind = "Prototype" ->
         << tok_identifier >> \o [i \in 1..Len(n.Args) |-> tok_identifier]
    [] n.kind = "Function" ->
         IF n.Proto.Name = anon_expr THEN NodeTokens(n.Body)
         ELSE << tok_def >> \o NodeTokens(n.Proto) \o NodeTokens(n.Body)
ArgTokens(Args, i) ==
  IF i > Len(Args) THEN << >>
  ELSE (IF i = 1 THEN << >> ELSE << ch_comma >>)
         \o NodeTokens(Args[i]) \o ArgTokens(Args, i + 1)
UnitTokens(u) ==
  IF u.handler = "extern" THEN << tok_extern >> \o NodeTokens(u.node)
  ELSE NodeTokens(u.node)

\* The tokens read from the start of a unit up to the one that was current
\* when its production returned, that one left out.
UnitSlice(u) == SubSeq(toks, u.startTok, u.prodTok - 1)
NoParens(ts) == SelectSeq(ts, LAMBDA c : c \notin {ch_lparen, ch_rparen})
Count(ts, c) == Len(SelectSeq(ts, LAMBDA x : x = c))

\* C19: when the production of a unit returns a node, the tokens read before
\* the current one are exactly the tokens of the node (every parenthesis
\* opened is closed among them) and the current token, the first one after
\* them, has been returned by the lexer already: the unit reaches codegen
\* with that token read, which is tok_eof when the input ends there, and the
\* next unit starts at it.
C19_OneTokenLookahead ==
  \A i \in 1..Len(units) :
    units[i].node # Null =>
      /\ units[i].prodTok <= Len(toks)
      /\ NoParens(UnitSlice(units[i])) = UnitTokens(units[i])
      /\ Count(UnitSlice(units[i]), ch_lparen) = Count(UnitSlice(units[i]), ch_rparen)
      /\ units[i].endTok = units[i].prodTok
      /\ i < Len(units) => units[i + 1].startTok = units[i].prodTok
      /\ (i = Len(units) /\ pc = "done") =>
           toks[units[i].prodTok] = tok_eof /\ Len(toks) = units[i].prodTok

\* x+g()<(3): the nine tokens of the expression are read, tok_eof is the
\* current token and the unit has been given to codegen.
C19_Witness ==
  /\ input = MixedChain(ch_plus, ch_lt)
  /\ Len(units) = 1 /\ units[1].node # Null /\ units[1].sent # Null
  /\ units[1].startTok = 1 /\ units[1].prodTok = 10
  /\ toks[10] = tok_eof

=============================================================================
